---- MODULE Spec2Model ----
(***************************************************************************)
(* Comet liquidity agent: the token-bucket RateLimiter, the priority-fee   *)
(* transaction submitter (sendTransactionWithPriorityFee over retry) and   *)
(* the rebalance session of the Comet agent.                               *)
(*                                                                         *)
(* The specifications share the module; each leaves the variables of the   *)
(* other components untouched:                                             *)
(*   SpecRL  RateLimiter.acquire with concurrent callers and a clock       *)
(*   SpecAdmit  the same with the grants of every bucket logged            *)
(*   SpecTx  one logical submission of sendTransactionWithPriorityFee      *)
(*   SpecCf  one call of confirmTransactionWithTimeout                     *)
(*   SpecRb  one Comet.rebalance session                                   *)
(*   SpecLoop  start(), stop() and the main loop of the Comet agent        *)
(*   SpecFees  one Comet.collectFees call                                  *)
(*   SpecSafety  SafetyManager.updateValue and resetStopLoss               *)
(***************************************************************************)
EXTENDS Integers, Naturals, Sequences, FiniteSets, TLC

VARIABLES buckets, now, rlPc, rlKey, rlWake, drawn, rlSeen, rlGrants

VARIABLES txPc, txFee, txMaxRetries, retries, attempts, txPending, lastError, txThrown,
          txEst, txCalls

rlVars == <<buckets, now, rlPc, rlKey, rlWake, drawn, rlSeen, rlGrants>>

VARIABLES rbPc, cfg, userPositions, oldActiveBin, oldPrice, strategyType, minBinId,
          maxBinId, xWeighting, yWeighting, i, curAmounts, removals, totalXAmount,
          totalYAmount, transactionHash, advisoryCalls, addCalls, addSends, addError,
          events, rbError, lastRebalanceTime, advice, sleeps

txVars == <<txPc, txFee, txMaxRetries, retries, attempts, txPending, lastError, txThrown,
            txEst, txCalls>>

VARIABLES cfPc, cfHost, cfTimeoutMs, cfElapsed, cfTimer, cfRetries, cfPolls, cfOutcome

cfVars == <<cfPc, cfHost, cfTimeoutMs, cfElapsed, cfTimer, cfRetries, cfPolls, cfOutcome>>

VARIABLES isRunning, loopPc, stopped, afterStop, decided, cycleLog

lpVars == <<isRunning, loopPc, stopped, afterStop, decided, cycleLog>>

VARIABLES fcPc, fcPositions, fcFees, fcIdx, fcSubmitted, fcEvents

fcVars == <<fcPc, fcPositions, fcFees, fcIdx, fcSubmitted, fcEvents>>

VARIABLES smConfig, initialValueUsd, peakValueUsd, currentValueUsd, stopLossTriggered,
          emergencyShutdownTriggered

smVars == <<smConfig, initialValueUsd, peakValueUsd, currentValueUsd, stopLossTriggered,
            emergencyShutdownTriggered>>

rbParams == <<strategyType, minBinId, maxBinId, xWeighting, yWeighting, advice>>

rbRemoval == <<i, curAmounts, removals, totalXAmount, totalYAmount, sleeps>>

rbAdd == <<addCalls, addSends, addError>>

rbVars == <<rbPc, cfg, userPositions, oldActiveBin, oldPrice, rbParams, rbRemoval,
            transactionHash, advisoryCalls, rbAdd, events, rbError, lastRebalanceTime>>

(***************************************************************************)
(* Arithmetic helpers                                                      *)
(***************************************************************************)
Min(a, b) == IF a < b THEN a ELSE b

Max(a, b) == IF a > b THEN a ELSE b

\* Math.ceil(a / b) for positive integers
CeilDiv(a, b) == (a + b - 1) \div b

(***************************************************************************)
(* RateLimiter                                                             *)
(***************************************************************************)
\* Bounds of the rate-limiter model: quota sizes, clock horizon, callers.
SvcRequests == 2

SvcPeriod == 3

DefaultRequests == 1

DefaultPeriod == 2

MaxTime == 6

NumCallers == 2

Callers == 1..NumCallers

\* API_RATE_LIMITS reduced to one named service and the 'default' entry.
config ==
  [k \in {"svc", "default"} |->
     IF k = "svc" THEN [requests |-> SvcRequests, period |-> SvcPeriod]
                  ELSE [requests |-> DefaultRequests, period |-> DefaultPeriod]]

\* Keys callers pass to acquire: one configured key and two unknown ones.
ServiceKeys == {"svc", "other1", "other2"}

\* A limiter that keeps a single bucket for all keys.
LimitKeyShared(key) == "default"

\* const limitKey = this.config[key] ? key : 'default'
LimitKey(key) == IF key \in DOMAIN config THEN key ELSE "default"

\* Math.floor(elapsed / limit.period * limit.requests), exact arithmetic
TokensToAdd(elapsed, limit) ==
  IF elapsed < 0 THEN 0 - CeilDiv((0 - elapsed) * limit.requests, limit.period)
  ELSE (elapsed * limit.requests) \div limit.period

\* A refill that forgets the Math.min cap.
RefillUncapped(bucket, limit, t) ==
  LET add == TokensToAdd(t - bucket.lastRefill, limit)
  IN IF add > 0 THEN [tokens |-> bucket.tokens + add, lastRefill |-> t]
     ELSE bucket

\* Lazy refill at the head of acquire.
Refill(bucket, limit, t) ==
  LET add == TokensToAdd(t - bucket.lastRefill, limit)
  IN IF add > 0
     THEN [tokens |-> Min(limit.requests, bucket.tokens + add), lastRefill |-> t]
     ELSE bucket

\* No token was seen to pass a waiter by.
NotSeen == 0 - 1

\* const timeToNextToken = Math.ceil(limit.period / limit.requests)
timeToNextToken(limit) == CeilDiv(limit.period, limit.requests)

\* Caller d is suspended on the bucket lk and is the only one suspended on it.
OnlyWaiter(d, lk) ==
  /\ rlPc[d] = "waiting"
  /\ LimitKey(rlKey[d]) = lk
  /\ \A e \in Callers \ {d} : ~(rlPc[e] = "waiting" /\ LimitKey(rlKey[e]) = lk)

\* The synchronous body of acquire(key) run by caller c at the current time:
\* refill, then either schedule the retry timer or consume a token. drawn
\* remembers under which keys a token was ever consumed.
AcquireBody(c, key) ==
  LET lk == LimitKey(key)
      limit == config[lk]
      b == Refill(buckets[lk], limit, now)
  IN IF b.tokens <= 0
     THEN /\ buckets' = [buckets EXCEPT ![lk] = b]
          /\ rlPc' = [rlPc EXCEPT ![c] = "waiting"]
          /\ rlKey' = [rlKey EXCEPT ![c] = key]
          /\ rlWake' = [rlWake EXCEPT ![c] = now + timeToNextToken(limit)]
          /\ drawn' = drawn
     ELSE /\ buckets' = [buckets EXCEPT ![lk] = [b EXCEPT !.tokens = @ - 1]]
          /\ rlPc' = [rlPc EXCEPT ![c] = "granted"]
          /\ rlKey' = [rlKey EXCEPT ![c] = key]
          /\ rlWake' = [rlWake EXCEPT ![c] = 0]
          /\ drawn' = drawn \cup {key}

\* constructor: every configured bucket starts full, stamped with Date.now()
RLInit ==
  /\ now = 0
  /\ buckets = [k \in DOMAIN config |-> [tokens |-> config[k].requests, lastRefill |-> 0]]
  /\ rlPc = [c \in Callers |-> "idle"]
  /\ rlKey = [c \in Callers |-> "svc"]
  /\ rlWake = [c \in Callers |-> 0]
  /\ drawn = {}
  /\ rlSeen = [c \in Callers |-> NotSeen]
  /\ rlGrants = [k \in DOMAIN config |-> <<>>]

\* A caller invokes acquire(key).
Acquire(c) ==
  /\ rlPc[c] = "idle"
  /\ \E key \in ServiceKeys : AcquireBody(c, key)
  /\ UNCHANGED <<now, rlSeen, rlGrants>>
  /\ UNCHANGED <<txVars, cfVars, rbVars, lpVars, fcVars, smVars>>

\* The setTimeout of a suspended caller fires (at or after its delay) and the
\* caller re-enters acquire(key).
AcquireRetry(c) ==
  /\ rlPc[c] = "waiting"
  /\ now >= rlWake[c]
  /\ AcquireBody(c, rlKey[c])
  /\ UNCHANGED <<now, rlSeen, rlGrants>>
  /\ UNCHANGED <<txVars, cfVars, rbVars, lpVars, fcVars, smVars>>

\* limit(): acquire has resolved, the caller goes on and may call again later.
AcquireReturn(c) ==
  /\ rlPc[c] = "granted"
  /\ rlPc' = [rlPc EXCEPT ![c] = "idle"]
  /\ UNCHANGED <<buckets, now, rlKey, rlWake, drawn, rlSeen, rlGrants>>
  /\ UNCHANGED <<txVars, cfVars, rbVars, lpVars, fcVars, smVars>>

\* Date.now() advances.
Tick ==
  /\ now < MaxTime
  /\ now' = now + 1
  /\ UNCHANGED <<buckets, rlPc, rlKey, rlWake, drawn, rlSeen, rlGrants>>
  /\ UNCHANGED <<txVars, cfVars, rbVars, lpVars, fcVars, smVars>>

\* The step of caller c as seen by the other callers: rlSeen remembers, for
\* the only waiter of a bucket, the first time a caller that arrived after it
\* consumed a token of that bucket, and forgets it when the waiter is served.
Observed(c) ==
  LET granted == rlPc'[c] = "granted"
      lk == LimitKey(rlKey'[c])
  IN rlSeen' = [d \in Callers |->
                  IF d = c THEN (IF granted THEN NotSeen ELSE rlSeen[c])
                  ELSE IF granted /\ rlPc[c] = "idle" /\ OnlyWaiter(d, lk)
                          /\ rlSeen[d] = NotSeen
                       THEN now
                       ELSE rlSeen[d]]

\* acquire(key) called while the callers are observed.
AcquireLive(c) ==
  /\ rlPc[c] = "idle"
  /\ \E key \in ServiceKeys : AcquireBody(c, key)
  /\ Observed(c)
  /\ UNCHANGED <<now, rlGrants>>
  /\ UNCHANGED <<txVars, cfVars, rbVars, lpVars, fcVars, smVars>>

\* The setTimeout of a suspended caller fires and the caller re-enters
\* acquire(key), while the callers are observed.
AcquireRetryLive(c) ==
  /\ rlPc[c] = "waiting"
  /\ now >= rlWake[c]
  /\ AcquireBody(c, rlKey[c])
  /\ Observed(c)
  /\ UNCHANGED <<now, rlGrants>>
  /\ UNCHANGED <<txVars, cfVars, rbVars, lpVars, fcVars, smVars>>

\* A time stamp seen from a clock that was set back by one unit; stamps
\* older than the horizon all read 0, which changes neither a refill (the
\* elapsed time still covers a whole period) nor whether a timer is due.
SetBack(t) == IF t = NotSeen THEN NotSeen ELSE Max(0, t - 1)

\* Date.now() advances without end and every setTimeout fires in the
\* millisecond it is due: the clock moves on only when no suspended caller
\* is due. At the horizon the clock reading stays and every recorded stamp
\* is set back instead, so that only differences of times are kept.
TickLive ==
  /\ \A c \in Callers : rlPc[c] = "waiting" => now < rlWake[c]
  /\ IF now < MaxTime
     THEN /\ now' = now + 1
          /\ UNCHANGED <<buckets, rlWake, rlSeen>>
     ELSE /\ now' = now
          /\ buckets' = [k \in DOMAIN buckets |->
                           [buckets[k] EXCEPT !.lastRefill = SetBack(@)]]
          /\ rlWake' = [c \in Callers |-> SetBack(rlWake[c])]
          /\ rlSeen' = [c \in Callers |-> SetBack(rlSeen[c])]
  /\ UNCHANGED <<rlPc, rlKey, drawn, rlGrants>>
  /\ UNCHANGED <<txVars, cfVars, rbVars, lpVars, fcVars, smVars>>

\* The longest window over which grants are counted.
MaxWindow == 2

\* The grant stamps of a log that a window ending at time t can still hold.
RecentGrants(log, t) == SelectSeq(log, LAMBDA g : g >= t - MaxWindow)

\* The step of caller c with its grant logged: rlGrants keeps, per bucket,
\* the Date.now() stamps of the acquire calls that consumed a token.
Logged(c) ==
  LET lk == LimitKey(rlKey'[c])
  IN rlGrants' = [k \in DOMAIN config |->
                    IF k = lk /\ rlPc'[c] = "granted"
                    THEN Append(rlGrants[k], now)
                    ELSE rlGrants[k]]

\* acquire(key) called while the grants are logged.
AcquireLogged(c) ==
  /\ rlPc[c] = "idle"
  /\ \E key \in ServiceKeys : AcquireBody(c, key)
  /\ Logged(c)
  /\ UNCHANGED <<now, rlSeen>>
  /\ UNCHANGED <<txVars, cfVars, rbVars, lpVars, fcVars, smVars>>

\* The setTimeout of a suspended caller fires (at or after its delay) and
\* the caller re-enters acquire(key), while the grants are logged.
AcquireRetryLogged(c) ==
  /\ rlPc[c] = "waiting"
  /\ now >= rlWake[c]
  /\ AcquireBody(c, rlKey[c])
  /\ Logged(c)
  /\ UNCHANGED <<now, rlSeen>>
  /\ UNCHANGED <<txVars, cfVars, rbVars, lpVars, fcVars, smVars>>

\* Date.now() advances while the grants are logged; stamps that no window
\* up to MaxWindow can share with a later grant leave the log.
TickLogged ==
  /\ now < MaxTime
  /\ now' = now + 1
  /\ rlGrants' = [k \in DOMAIN config |-> RecentGrants(rlGrants[k], now + 1)]
  /\ UNCHANGED <<buckets, rlPc, rlKey, rlWake, drawn, rlSeen>>
  /\ UNCHANGED <<txVars, cfVars, rbVars, lpVars, fcVars, smVars>>

(***************************************************************************)
(* Transaction submitter: sendTransactionWithPriorityFee over retry        *)
(***************************************************************************)
\* Fees are counted in units of FeeUnit micro-lamports per compute unit so
\* that values beyond 32 bits stay representable; every fee of the model is
\* a multiple of FeeUnit, which makes the scaling exact (also for % 2^32).
FeeUnit == 2^3

\* 2^32 micro-lamports, the range of Buffer.readUInt32LE, in fee units
Word32 == 2^(32 - 3)

\* Math.max(selectedFee, 10000)
SafeMinimumFee == 10000 \div FeeUnit

\* microLamports: 50000 of the catch branch of addOptimizedPriorityFee
FallbackFee == 50000 \div FeeUnit

\* Fees the estimator may report for the chosen level (default schedule
\* values, 2^31 whose double no longer fits 32 bits, and one value that
\* itself needs more than 32 bits).
EstimateFees ==
  {5000 \div FeeUnit, 10000 \div FeeUnit, 100000 \div FeeUnit,
   Word32 \div 2, Word32 + (10000 \div FeeUnit)}

\* A fee in micro-lamports as the fee units of the model.
ToUnits(microLamports) == microLamports \div FeeUnit

\* transactionImportance: 'low' | 'medium' | 'high' | 'critical'
Importances == {"low", "medium", "high", "critical"}

\* enum NetworkCongestion
Congestions == {"low", "moderate", "high", "veryHigh"}

\* enum PriorityLevel
PriorityLevels == {"min", "low", "medium", "high", "veryHigh", "unsafeMax"}

\* The schedule of the catch block of getPriorityFeeEstimate, in
\* micro-lamports per compute unit.
DefaultSchedule ==
  [l \in PriorityLevels |->
     CASE l = "min" -> 1
       [] l = "low" -> 5000
       [] l = "medium" -> 10000
       [] l = "high" -> 100000
       [] l = "veryHigh" -> 1000000
       [] l = "unsafeMax" -> 5000000]

\* A failed fee query, as the response of getPriorityFeeEstimate.
QueryFailed == 0 - 1

\* An answer of the fee query that has no value for the requested level.
QueryMalformed == 0 - 2

\* A fee query that answers a failure with an all-zero schedule.
getPriorityFeeEstimateZero(response, level) ==
  IF response = QueryFailed THEN 0 ELSE response

\* getPriorityFeeEstimate, read at one level: the value the query reported
\* for the level, or the value of the default schedule when the query failed
\* (transport error, timeout, error response: all end in the catch block).
getPriorityFeeEstimate(response, level) ==
  IF response = QueryFailed THEN DefaultSchedule[level] ELSE response

\* Medium fees the congestion query may report, in micro-lamports: the
\* values on both sides of every boundary.
MediumFees == {5000, 5001, 50000, 50001, 500000, 500001}

\* A classification with strict comparisons.
estimateNetworkCongestionStrict(mediumFee) ==
  IF mediumFee < 5000 THEN "low"
  ELSE IF mediumFee < 50000 THEN "moderate"
  ELSE IF mediumFee < 500000 THEN "high"
  ELSE "veryHigh"

\* estimateNetworkCongestion: the if-chain on the medium fee
estimateNetworkCongestion(mediumFee) ==
  IF mediumFee <= 5000 THEN "low"
  ELSE IF mediumFee <= 50000 THEN "moderate"
  ELSE IF mediumFee <= 500000 THEN "high"
  ELSE "veryHigh"

\* A matrix whose entry for high importance under high congestion is low.
determinePriorityLevelDip(importance, congestion) ==
  CASE importance = "low" ->
         [low |-> "min", moderate |-> "low", high |-> "medium", veryHigh |-> "medium"][congestion]
    [] importance = "medium" ->
         [low |-> "low", moderate |-> "medium", high |-> "medium", veryHigh |-> "high"][congestion]
    [] importance = "high" ->
         [low |-> "medium", moderate |-> "medium", high |-> "low", veryHigh |-> "veryHigh"][congestion]
    [] importance = "critical" ->
         [low |-> "high", moderate |-> "high", high |-> "veryHigh", veryHigh |-> "veryHigh"][congestion]

\* determinePriorityLevel: priorityMatrix[transactionImportance][networkCongestion]
determinePriorityLevel(importance, congestion) ==
  CASE importance = "low" ->
         [low |-> "min", moderate |-> "low", high |-> "medium", veryHigh |-> "medium"][congestion]
    [] importance = "medium" ->
         [low |-> "low", moderate |-> "medium", high |-> "medium", veryHigh |-> "high"][congestion]
    [] importance = "high" ->
         [low |-> "medium", moderate |-> "medium", high |-> "high", veryHigh |-> "veryHigh"][congestion]
    [] importance = "critical" ->
         [low |-> "high", moderate |-> "high", high |-> "veryHigh", veryHigh |-> "veryHigh"][congestion]

\* No estimate at hand: none was made yet, or the first send has settled
\* and the locals of addOptimizedPriorityFee are gone (txEst describes the
\* first attempt only).
NoEstimate ==
  [importance |-> "none", mediumQuery |-> 0, congestion |-> "none", level |-> "none",
   feeQuery |-> "none", selected |-> 0]

\* A remote call of the submitter with the bucket whose token was acquired
\* for it ("none": the call went to the underlying connection directly).
RemoteCall(method, limitKey) == [method |-> method, limitKey |-> limitKey]

\* Largest maxRetries a caller passes in the model.
MaxRetriesBound == 3

\* error.message.includes('not confirmed' | 'block height exceeded' | 'timeout')
TimeoutClass(kind) == kind = "timeout"

ErrorKinds == {"timeout", "other"}

NoError == [kind |-> "none", attempt |-> 0]

\* feeInstruction.data.readUInt32LE(1): the low 32 bits of the u64 fee
ReadUInt32LE(fee) == fee % Word32

\* const newFee = currentFee * 2
NewFee(currentFee) == ReadUInt32LE(currentFee) * 2

\* A retry guard that is off by one.
RetriesExhaustedOffByOne(r, maxRetries) == r > maxRetries

\* if (retries >= maxRetries) in retry
RetriesExhausted(r, maxRetries) == r >= maxRetries

\* Whether the catch block of retry throws instead of retrying.
GivesUp(kind, r, maxRetries) == RetriesExhausted(r, maxRetries)

TxInit ==
  /\ txPc = "idle"
  /\ txFee = 0
  /\ txMaxRetries = 0
  /\ retries = 0
  /\ attempts = << >>
  /\ txPending = 0
  /\ lastError = NoError
  /\ txThrown = [wrapped |-> FALSE, cause |-> NoError]
  /\ txEst = NoEstimate
  /\ txCalls = {}

\* transaction.serialize() inside fn(): the attempt carries the fee the
\* transaction holds at this moment.
Serialize == Append(attempts, [fee |-> txFee, error |-> "none"])

\* The remote calls of sendTransactionWithPriorityFee up to the first send:
\* getLatestBlockhash on the underlying connection, the two fee queries under
\* 'helius:api' and the send under 'helius:sendTransaction'.
FirstSendCalls ==
  {RemoteCall("getLatestBlockhash", "none"),
   RemoteCall("getPriorityFeeEstimate", "helius:api"),
   RemoteCall("sendTransaction", "helius:sendTransaction")}

\* sendTransactionWithPriorityFee up to the first send: blockhash fetched,
\* addOptimizedPriorityFee classifies the congestion from the medium fee of a
\* first fee query, picks the level for the importance, reads the fee of
\* that level from a second fee query (a failed query yields the default
\* schedule; an answer without a value for the level ends in the catch
\* branch and its fallback fee), floors it at the minimum, the transaction is
\* signed and retry calls fn() for the first time.
TxStart ==
  /\ txPc = "idle"
  /\ \E mr \in 0..MaxRetriesBound :
     \E importance \in Importances :
     \E q1 \in MediumFees \cup {QueryFailed} :
     \E q2 \in EstimateFees \cup {QueryFailed, QueryMalformed} :
       LET congestion == estimateNetworkCongestion(getPriorityFeeEstimate(q1, "medium"))
           level == determinePriorityLevel(importance, congestion)
           selected == IF q2 = QueryFailed
                       THEN ToUnits(getPriorityFeeEstimate(q2, level))
                       ELSE getPriorityFeeEstimate(q2, level)
           fee == IF q2 = QueryMalformed THEN FallbackFee ELSE Max(selected, SafeMinimumFee)
       IN /\ txMaxRetries' = mr
          /\ txFee' = fee
          /\ attempts' = <<[fee |-> fee, error |-> "none"]>>
          /\ txEst' = [importance |-> importance, mediumQuery |-> q1,
                       congestion |-> congestion, level |-> level,
                       feeQuery |-> IF q2 = QueryMalformed THEN "malformed"
                                    ELSE IF q2 = QueryFailed THEN "failed" ELSE "answered",
                       selected |-> IF q2 = QueryMalformed THEN 0 ELSE selected]
  /\ txCalls' = FirstSendCalls
  /\ txPc' = "inflight"
  /\ UNCHANGED <<retries, txPending, lastError, txThrown>>
  /\ UNCHANGED <<rlVars, cfVars, rbVars, lpVars, fcVars, smVars>>

\* The initial getLatestBlockhash rejects: the outer catch rethrows, nothing
\* was sent.
TxStartFail ==
  /\ txPc = "idle"
  /\ txPc' = "failed"
  /\ txThrown' = [wrapped |-> FALSE, cause |-> [kind |-> "other", attempt |-> 0]]
  /\ txCalls' = {RemoteCall("getLatestBlockhash", "none")}
  /\ UNCHANGED <<txFee, txMaxRetries, retries, attempts, txPending, lastError, txEst>>
  /\ UNCHANGED <<rlVars, cfVars, rbVars, lpVars, fcVars, smVars>>

\* The rate-limited send resolves with a signature.
TxSendOk ==
  /\ txPc = "inflight"
  /\ txPc' = "done"
  /\ txEst' = NoEstimate
  /\ UNCHANGED <<txFee, txMaxRetries, retries, attempts, txPending, lastError, txThrown,
                 txCalls>>
  /\ UNCHANGED <<rlVars, cfVars, rbVars, lpVars, fcVars, smVars>>

\* The send rejects: the catch block of retry. Either the retries are used up
\* and the enriched error is thrown, or retries is incremented, onRetry is
\* called (not awaited: for a timeout-class error it starts the blockhash
\* fetch and suspends) and retry goes to sleep.
TxSendFail ==
  /\ txPc = "inflight"
  /\ \E kind \in ErrorKinds :
       LET err == [kind |-> kind, attempt |-> Len(attempts)]
       IN /\ lastError' = err
          /\ attempts' = [attempts EXCEPT ![Len(attempts)].error = kind]
          /\ IF GivesUp(kind, retries, txMaxRetries)
             THEN /\ txPc' = "failed"
                  /\ txThrown' = [wrapped |-> TRUE, cause |-> err]
                  /\ UNCHANGED <<retries, txPending>>
             ELSE /\ txPc' = "backoff"
                  /\ retries' = retries + 1
                  /\ txPending' = IF TimeoutClass(kind) THEN txPending + 1 ELSE txPending
                  /\ UNCHANGED txThrown
  /\ txEst' = NoEstimate
  /\ UNCHANGED <<txFee, txMaxRetries, txCalls>>
  /\ UNCHANGED <<rlVars, cfVars, rbVars, lpVars, fcVars, smVars>>

\* await sleep(jitteredDelay) resolves; the loop calls fn() again, which
\* serializes the transaction as it is now and sends it.
TxBackoffDone ==
  /\ txPc = "backoff"
  /\ txPc' = "inflight"
  /\ attempts' = Serialize
  /\ UNCHANGED <<txFee, txMaxRetries, retries, txPending, lastError, txThrown, txEst, txCalls>>
  /\ UNCHANGED <<rlVars, cfVars, rbVars, lpVars, fcVars, smVars>>

\* The getLatestBlockhash awaited by an onRetry callback resolves: the
\* callback replaces the fee instruction with the doubled fee and re-signs.
TxEscalate ==
  /\ txPending > 0
  /\ txPending' = txPending - 1
  /\ txFee' = NewFee(txFee)
  /\ UNCHANGED <<txPc, txMaxRetries, retries, attempts, lastError, txThrown, txEst, txCalls>>
  /\ UNCHANGED <<rlVars, cfVars, rbVars, lpVars, fcVars, smVars>>

\* The getLatestBlockhash awaited by an onRetry callback rejects: the
\* callback's promise rejects unobserved and the fee is left as it was.
TxEscalateFail ==
  /\ txPending > 0
  /\ txPending' = txPending - 1
  /\ UNCHANGED <<txPc, txFee, txMaxRetries, retries, attempts, lastError, txThrown, txEst,
                 txCalls>>
  /\ UNCHANGED <<rlVars, cfVars, rbVars, lpVars, fcVars, smVars>>

TxNext ==
  \/ TxStart
  \/ TxStartFail
  \/ TxSendOk
  \/ TxSendFail
  \/ TxBackoffDone
  \/ TxEscalate
  \/ TxEscalateFail

(***************************************************************************)
(* confirmTransactionWithTimeout: one confirmation wait                    *)
(***************************************************************************)
\* Largest timeoutMs a caller passes, in clock units.
MaxTimeoutMs == 2

\* The clock of a confirmation wait stops here.
MaxCfTime == 4

\* retry(..., 5, 2000): 5 retries for confirmation
ConfirmRetries == 5

\* What the process does with an uncaught exception: the handler of cli.ts
\* stops the agent and calls process.exit(1) (as does a process without a
\* handler), the handler of server.ts logs it and keeps running.
Hosts == {"exit", "log"}

CfInit ==
  /\ cfPc = "idle"
  /\ cfHost = "log"
  /\ cfTimeoutMs = 0
  /\ cfElapsed = 0
  /\ cfTimer = "unset"
  /\ cfRetries = 0
  /\ cfPolls = 0
  /\ cfOutcome = "none"

\* The wait is still suspended at await retry(...).
CfPending == cfPc \in {"polling", "backoff"}

\* The call has delivered an outcome to its caller.
CfEnded == cfPc \in {"returned", "threw"}

\* confirmTransactionWithTimeout up to the first poll: setTimeout arms the
\* timer and retry calls fn(), which issues the rate-limited
\* confirmTransaction.
CfStart ==
  /\ cfPc = "idle"
  /\ \E t \in 1..MaxTimeoutMs : cfTimeoutMs' = t
  /\ \E h \in Hosts : cfHost' = h
  /\ cfPc' = "polling"
  /\ cfTimer' = "armed"
  /\ cfPolls' = 1
  /\ UNCHANGED <<cfElapsed, cfRetries, cfOutcome>>
  /\ UNCHANGED <<rlVars, txVars, rbVars, lpVars, fcVars, smVars>>

\* A poll resolves with the status of the transaction: retry returns,
\* clearTimeout runs (without effect on a timer that already fired), and the
\* status is either thrown as 'Transaction failed' or returned.
CfPollResolved ==
  /\ cfPc = "polling"
  /\ cfTimer' = IF cfTimer = "armed" THEN "cleared" ELSE cfTimer
  /\ \E err \in BOOLEAN :
       /\ cfOutcome' = IF err THEN "executionError" ELSE "confirmed"
       /\ cfPc' = IF err THEN "threw" ELSE "returned"
  /\ UNCHANGED <<cfHost, cfTimeoutMs, cfElapsed, cfRetries, cfPolls>>
  /\ UNCHANGED <<rlVars, txVars, rbVars, lpVars, fcVars, smVars>>

\* A poll rejects: the catch block of retry. With the retries used up the
\* enriched error leaves retry and the catch of confirmTransactionWithTimeout
\* rethrows it; clearTimeout is skipped, the timer stays armed.
CfPollRejected ==
  /\ cfPc = "polling"
  /\ IF RetriesExhausted(cfRetries, ConfirmRetries)
     THEN /\ cfPc' = "threw"
          /\ cfOutcome' = "pollsExhausted"
          /\ UNCHANGED cfRetries
     ELSE /\ cfPc' = "backoff"
          /\ cfRetries' = cfRetries + 1
          /\ UNCHANGED cfOutcome
  /\ UNCHANGED <<cfHost, cfTimeoutMs, cfElapsed, cfTimer, cfPolls>>
  /\ UNCHANGED <<rlVars, txVars, rbVars, lpVars, fcVars, smVars>>

\* await sleep(jitteredDelay) resolves and retry polls again.
CfBackoffDone ==
  /\ cfPc = "backoff"
  /\ cfPc' = "polling"
  /\ cfPolls' = cfPolls + 1
  /\ UNCHANGED <<cfHost, cfTimeoutMs, cfElapsed, cfTimer, cfRetries, cfOutcome>>
  /\ UNCHANGED <<rlVars, txVars, rbVars, lpVars, fcVars, smVars>>

\* The timer callback runs and throws. The throw happens on the timer's own
\* stack: it is an uncaught exception of the process, not a rejection of the
\* promise the caller awaits. The process either exits or logs and goes on.
CfTimerFires ==
  /\ cfTimer = "armed"
  /\ cfElapsed >= cfTimeoutMs
  /\ cfTimer' = IF CfPending THEN "fired" ELSE "firedLate"
  /\ cfPc' = IF CfPending /\ cfHost = "exit" THEN "exited" ELSE cfPc
  /\ UNCHANGED <<cfHost, cfTimeoutMs, cfElapsed, cfRetries, cfPolls, cfOutcome>>
  /\ UNCHANGED <<rlVars, txVars, rbVars, lpVars, fcVars, smVars>>

\* Time passes while a poll or a backoff is pending or the timer is armed.
\* A due timer runs before more time passes.
CfTick ==
  /\ CfPending \/ cfTimer = "armed"
  /\ cfElapsed < MaxCfTime
  /\ ~(cfTimer = "armed" /\ cfElapsed >= cfTimeoutMs)
  /\ cfElapsed' = cfElapsed + 1
  /\ UNCHANGED <<cfPc, cfHost, cfTimeoutMs, cfTimer, cfRetries, cfPolls, cfOutcome>>
  /\ UNCHANGED <<rlVars, txVars, rbVars, lpVars, fcVars, smVars>>

CfNext ==
  \/ CfStart
  \/ CfPollResolved
  \/ CfPollRejected
  \/ CfBackoffDone
  \/ CfTimerFires
  \/ CfTick

(***************************************************************************)
(* Comet.start, Comet.stop and the main loop of the standard strategy      *)
(***************************************************************************)
\* Number of start() calls made on the agent.
NumLoops == 2

Loops == 1..NumLoops

\* The steps of a cycle that refresh the state, decide, rebalance or collect.
InCycle == {"refresh", "decide", "rebalance", "fees"}

\* The inputs shouldRebalance reads, in the order it reads them: what it
\* does not reach is "unread" or "unasked". The advisory request is answered
\* with shouldRebalance true ("yes") or false ("no"), or it fails.
DecisionInputs ==
  {in \in [autoRebalance : BOOLEAN, elapsed : BOOLEAN, claudeEnabled : BOOLEAN,
           activeBin : {"ok", "failed", "unread"},
           advisory : {"yes", "no", "failed", "unasked"}] :
     /\ (in.activeBin = "unread") <=> ~(in.autoRebalance /\ in.elapsed /\ in.claudeEnabled)
     /\ (in.advisory = "unasked") <=> (in.activeBin # "ok")
     /\ ~in.autoRebalance => (~in.elapsed /\ ~in.claudeEnabled)
     /\ ~in.elapsed => ~in.claudeEnabled}

\* ClaudeService.getRebalanceRecommendation(...).shouldRebalance: the parsed
\* answer, or the default recommendation of the catch block when the request
\* failed.
RecommendsRebalance(advisory) ==
  IF advisory = "failed" THEN FALSE ELSE advisory = "yes"

\* private async shouldRebalance()
shouldRebalance(in) ==
  IF ~in.autoRebalance THEN FALSE
  ELSE IF ~in.elapsed THEN FALSE
  ELSE IF ~in.claudeEnabled THEN TRUE
  ELSE IF in.activeBin = "failed" THEN TRUE
  ELSE RecommendsRebalance(in.advisory)

\* private shouldCollectFees(): return true
shouldCollectFees == TRUE

\* No decision at hand: shouldRebalance was not called in this cycle, or the
\* step that followed its answer has ended.
NoDecision ==
  [taken |-> FALSE,
   inputs |-> [autoRebalance |-> FALSE, elapsed |-> FALSE, claudeEnabled |-> FALSE,
               activeBin |-> "unread", advisory |-> "unasked"],
   result |-> FALSE]

\* A loop in which an error of rebalance() reaches the outer catch of start().
AfterRebalanceRethrow(outcome) ==
  IF outcome = "threw" THEN "threw"
  ELSE IF shouldCollectFees THEN "fees" ELSE "sleep"

\* try { await this.rebalance() } catch (rebalanceError) { log }: whatever
\* the outcome, the cycle goes on with the fee collection.
AfterRebalance(outcome) == IF shouldCollectFees THEN "fees" ELSE "sleep"

\* constructor: isRunning = false, no start() call yet. stopped remembers
\* that stop() was called and no start() has set isRunning since; afterStop
\* remembers, per loop, whether its current cycle began in that condition;
\* decided is, per loop, the decision of shouldRebalance its cycle is acting
\* on, and cycleLog the failures of its current cycle.
LpInit ==
  /\ isRunning = FALSE
  /\ loopPc = [l \in Loops |-> "none"]
  /\ stopped = FALSE
  /\ afterStop = [l \in Loops |-> FALSE]
  /\ decided = [l \in Loops |-> NoDecision]
  /\ cycleLog = [l \in Loops |-> {}]

\* start(): returns at once when the agent is running, otherwise awaits
\* initialize().
LpStart(l) ==
  /\ loopPc[l] = "none"
  /\ loopPc' = [loopPc EXCEPT ![l] = IF isRunning THEN "returned" ELSE "initializing"]
  /\ UNCHANGED <<isRunning, stopped, afterStop, decided, cycleLog>>
  /\ UNCHANGED <<rlVars, txVars, cfVars, rbVars, fcVars, smVars>>

\* await this.initialize() resolves: isRunning = true and the loop is entered.
LpInitDone(l) ==
  /\ loopPc[l] = "initializing"
  /\ isRunning' = TRUE
  /\ stopped' = FALSE
  /\ loopPc' = [loopPc EXCEPT ![l] = "head"]
  /\ UNCHANGED <<afterStop, decided, cycleLog>>
  /\ UNCHANGED <<rlVars, txVars, cfVars, rbVars, fcVars, smVars>>

\* await this.initialize() rejects: the catch of start() clears isRunning and
\* rethrows.
LpInitFail(l) ==
  /\ loopPc[l] = "initializing"
  /\ isRunning' = FALSE
  /\ loopPc' = [loopPc EXCEPT ![l] = "threw"]
  /\ UNCHANGED <<stopped, afterStop, decided, cycleLog>>
  /\ UNCHANGED <<rlVars, txVars, cfVars, rbVars, fcVars, smVars>>

\* A loop that never looks at the flag.
LoopContinuesAlways(running) == TRUE

\* while (this.isRunning)
LoopContinues(running) == running

\* The loop condition is evaluated: a new cycle begins with the state
\* refresh, or the loop ends and start() returns.
LpHead(l) ==
  /\ loopPc[l] = "head"
  /\ IF LoopContinues(isRunning)
     THEN /\ loopPc' = [loopPc EXCEPT ![l] = "refresh"]
          /\ afterStop' = [afterStop EXCEPT ![l] = stopped]
          /\ cycleLog' = [cycleLog EXCEPT ![l] = {}]
     ELSE /\ loopPc' = [loopPc EXCEPT ![l] = "returned"]
          /\ UNCHANGED <<afterStop, cycleLog>>
  /\ UNCHANGED <<isRunning, stopped, decided>>
  /\ UNCHANGED <<rlVars, txVars, cfVars, rbVars, fcVars, smVars>>

\* refetchStates and getActiveBin resolve and the histories are updated, or
\* one of them rejects: the cycle sleeps and continues with the next one.
LpRefresh(l) ==
  /\ loopPc[l] = "refresh"
  /\ \/ /\ loopPc' = [loopPc EXCEPT ![l] = "decide"]
        /\ UNCHANGED cycleLog
     \/ /\ loopPc' = [loopPc EXCEPT ![l] = "sleep"]
        /\ cycleLog' = [cycleLog EXCEPT ![l] = @ \cup {"refreshFailed"}]
  /\ UNCHANGED <<isRunning, stopped, afterStop, decided>>
  /\ UNCHANGED <<rlVars, txVars, cfVars, rbVars, fcVars, smVars>>

\* await this.shouldRebalance() answers: rebalance() is called, or the cycle
\* goes on with the fee collection.
LpDecide(l) ==
  /\ loopPc[l] = "decide"
  /\ \E in \in DecisionInputs :
       LET result == shouldRebalance(in)
       IN /\ decided' = [decided EXCEPT ![l] = [taken |-> TRUE, inputs |-> in, result |-> result]]
          /\ IF result
             THEN loopPc' = [loopPc EXCEPT ![l] = "rebalance"]
             ELSE IF shouldCollectFees
             THEN loopPc' = [loopPc EXCEPT ![l] = "fees"]
             ELSE loopPc' = [loopPc EXCEPT ![l] = "sleep"]
  /\ UNCHANGED <<isRunning, stopped, afterStop, cycleLog>>
  /\ UNCHANGED <<rlVars, txVars, cfVars, rbVars, fcVars, smVars>>

\* await this.rebalance() returns or throws (logged); collectFees() follows.
LpRebalanceEnds(l) ==
  /\ loopPc[l] = "rebalance"
  /\ \E outcome \in {"returned", "threw"} :
       /\ loopPc' = [loopPc EXCEPT ![l] = AfterRebalance(outcome)]
       /\ cycleLog' = [cycleLog EXCEPT ![l] =
                         @ \cup (IF outcome = "threw" THEN {"rebalanceThrew"} ELSE {})]
  /\ decided' = [decided EXCEPT ![l] = NoDecision]
  /\ UNCHANGED <<isRunning, stopped, afterStop>>
  /\ UNCHANGED <<rlVars, txVars, cfVars, rbVars, fcVars, smVars>>

\* await this.collectFees() returns or throws (logged).
LpFeesEnd(l) ==
  /\ loopPc[l] = "fees"
  /\ loopPc' = [loopPc EXCEPT ![l] = "sleep"]
  /\ \E outcome \in {"returned", "threw"} :
       cycleLog' = [cycleLog EXCEPT ![l] =
                      @ \cup (IF outcome = "threw" THEN {"feesThrew"} ELSE {})]
  /\ decided' = [decided EXCEPT ![l] = NoDecision]
  /\ UNCHANGED <<isRunning, stopped, afterStop>>
  /\ UNCHANGED <<rlVars, txVars, cfVars, rbVars, fcVars, smVars>>

\* await sleep(pollingInterval) resolves: back to the loop condition.
LpSleepDone(l) ==
  /\ loopPc[l] = "sleep"
  /\ loopPc' = [loopPc EXCEPT ![l] = "head"]
  /\ UNCHANGED <<isRunning, stopped, afterStop, decided, cycleLog>>
  /\ UNCHANGED <<rlVars, txVars, cfVars, rbVars, fcVars, smVars>>

\* stop(): isRunning = false; nothing else of the loop is touched.
LpStop ==
  /\ isRunning' = FALSE
  /\ stopped' = TRUE
  /\ UNCHANGED <<loopPc, afterStop, decided, cycleLog>>
  /\ UNCHANGED <<rlVars, txVars, cfVars, rbVars, fcVars, smVars>>

LoopNext ==
  \/ \E l \in Loops : LpStart(l)
  \/ \E l \in Loops : LpInitDone(l)
  \/ \E l \in Loops : LpInitFail(l)
  \/ \E l \in Loops : LpHead(l)
  \/ \E l \in Loops : LpRefresh(l)
  \/ \E l \in Loops : LpDecide(l)
  \/ \E l \in Loops : LpRebalanceEnds(l)
  \/ \E l \in Loops : LpFeesEnd(l)
  \/ \E l \in Loops : LpSleepDone(l)
  \/ LpStop

(***************************************************************************)
(* Comet.collectFees: one fee collection                                   *)
(***************************************************************************)
\* Largest number of positions the position query returns to collectFees.
MaxFeePositions == 3

\* collectFees was called with the pool initialized; nothing was read yet.
FcInit ==
  /\ fcPc = "fetch"
  /\ fcPositions = 0
  /\ fcFees = <<>>
  /\ fcIdx = 0
  /\ fcSubmitted = 0
  /\ fcEvents = <<>>

\* The catch block of collectFees is entered.
FcCatch == fcPc' = "catch"

\* await dlmm.getPositionsByUserAndLbPair(...): with no positions the call
\* returns; otherwise the claimable fees are read next; a rejection goes to
\* the catch block.
FcFetchPositions ==
  /\ fcPc = "fetch"
  /\ \/ \E n \in 0..MaxFeePositions :
          /\ fcPositions' = n
          /\ fcPc' = IF n = 0 THEN "returned" ELSE "readFees"
     \/ /\ FcCatch
        /\ UNCHANGED fcPositions
  /\ UNCHANGED <<fcFees, fcIdx, fcSubmitted, fcEvents>>
  /\ UNCHANGED <<rlVars, txVars, cfVars, rbVars, lpVars, smVars>>

\* await Promise.all(userPositions.map(getClaimableSwapFee)): every read
\* either yields the fees of its position (TRUE) or fails and yields null.
FcReadClaimable ==
  /\ fcPc = "readFees"
  /\ \E fees \in [1..fcPositions -> BOOLEAN] : fcFees' = fees
  /\ fcPc' = "claimBuild"
  /\ UNCHANGED <<fcPositions, fcIdx, fcSubmitted, fcEvents>>
  /\ UNCHANGED <<rlVars, txVars, cfVars, rbVars, lpVars, smVars>>

\* await dlmm.claimAllSwapFee(...) resolves with the transaction or rejects.
FcClaimBuilt ==
  /\ fcPc = "claimBuild"
  /\ \/ fcPc' = "send"
     \/ FcCatch
  /\ UNCHANGED <<fcPositions, fcFees, fcIdx, fcSubmitted, fcEvents>>
  /\ UNCHANGED <<rlVars, txVars, cfVars, rbVars, lpVars, smVars>>

\* await sendTransactionWithPriorityFee(...): the transaction is submitted;
\* the call resolves with the signature or rejects.
FcSent ==
  /\ fcPc = "send"
  /\ fcSubmitted' = fcSubmitted + 1
  /\ \/ fcPc' = "confirm"
     \/ FcCatch
  /\ UNCHANGED <<fcPositions, fcFees, fcIdx, fcEvents>>
  /\ UNCHANGED <<rlVars, txVars, cfVars, rbVars, lpVars, smVars>>

\* await confirmTransactionWithTimeout(...) resolves or rejects; the prices
\* are read with a fallback and the recording loop starts at position 0.
FcConfirmed ==
  /\ fcPc = "confirm"
  /\ \/ /\ fcPc' = "record"
        /\ fcIdx' = 1
     \/ /\ FcCatch
        /\ UNCHANGED fcIdx
  /\ UNCHANGED <<fcPositions, fcFees, fcSubmitted, fcEvents>>
  /\ UNCHANGED <<rlVars, txVars, cfVars, rbVars, lpVars, smVars>>

\* The event recordFeeCollectionEvent is called with.
FeeEvent(position, success) == [position |-> position, success |-> success]

\* if (fees)
HasFees(fees, k) == fees[k]

\* One round of the recording loop: a position whose fees were read gets a
\* success event (the sink resolves) or the sink rejects; a position whose
\* read failed is skipped. After the last position the active bin is read.
FcRecordEvent ==
  /\ fcPc = "record"
  /\ LET next == IF fcIdx < fcPositions THEN "record" ELSE "getActiveBin"
     IN IF HasFees(fcFees, fcIdx)
        THEN \/ /\ fcEvents' = Append(fcEvents, FeeEvent(fcIdx, TRUE))
                /\ fcIdx' = fcIdx + 1
                /\ fcPc' = next
             \/ /\ FcCatch
                /\ UNCHANGED <<fcEvents, fcIdx>>
        ELSE /\ fcIdx' = fcIdx + 1
             /\ fcPc' = next
             /\ UNCHANGED fcEvents
  /\ UNCHANGED <<fcPositions, fcFees, fcSubmitted>>
  /\ UNCHANGED <<rlVars, txVars, cfVars, rbVars, lpVars, smVars>>

\* await dlmm.getActiveBin() after the collection resolves or rejects.
FcGetActiveBin ==
  /\ fcPc = "getActiveBin"
  /\ \/ fcPc' = "metrics"
     \/ FcCatch
  /\ UNCHANGED <<fcPositions, fcFees, fcIdx, fcSubmitted, fcEvents>>
  /\ UNCHANGED <<rlVars, txVars, cfVars, rbVars, lpVars, smVars>>

\* await recordPoolMetrics(...) resolves and collectFees returns, or rejects.
FcMetricsRecorded ==
  /\ fcPc = "metrics"
  /\ \/ fcPc' = "returned"
     \/ FcCatch
  /\ UNCHANGED <<fcPositions, fcFees, fcIdx, fcSubmitted, fcEvents>>
  /\ UNCHANGED <<rlVars, txVars, cfVars, rbVars, lpVars, smVars>>

\* catch (error): the failure event for 'ALL_POSITIONS' (position 0) is
\* handed to the sink, which records it or rejects (logged); the error is
\* rethrown.
FcFailureRecorded ==
  /\ fcPc = "catch"
  /\ \/ fcEvents' = Append(fcEvents, FeeEvent(0, FALSE))
     \/ UNCHANGED fcEvents
  /\ fcPc' = "thrown"
  /\ UNCHANGED <<fcPositions, fcFees, fcIdx, fcSubmitted>>
  /\ UNCHANGED <<rlVars, txVars, cfVars, rbVars, lpVars, smVars>>

FcNext ==
  \/ FcFetchPositions
  \/ FcReadClaimable
  \/ FcClaimBuilt
  \/ FcSent
  \/ FcConfirmed
  \/ FcRecordEvent
  \/ FcGetActiveBin
  \/ FcMetricsRecorded
  \/ FcFailureRecorded

(***************************************************************************)
(* SafetyManager                                                           *)
(***************************************************************************)
\* The defaults of the constructor: stopLossPercentage 10,
\* maxDrawdownPercentage 20, minimumValueUsd 90.
DefaultSafetyConfig ==
  [stopLossPercentage |-> 10, maxDrawdownPercentage |-> 20, minimumValueUsd |-> 90]

\* config.x || default: a zero or missing setting takes the default.
SafetySetting(given, name) ==
  IF name \in DOMAIN given /\ given[name] # 0 THEN given[name] ELSE DefaultSafetyConfig[name]

\* The configuration the constructor builds from the partial one it is given.
SafetyConfigOf(given) ==
  [name \in DOMAIN DefaultSafetyConfig |-> SafetySetting(given, name)]

\* Partial configurations handed to the constructor: none, and a tighter one
\* whose stop loss of 0 falls back to the default.
GivenSafetyConfigs ==
  {[maxDrawdownPercentage |-> 20],
   [stopLossPercentage |-> 0, maxDrawdownPercentage |-> 10, minimumValueUsd |-> 50]}

\* Portfolio values in USD: start values and the values updateValue is given.
StartValues == {100, 120}

PortfolioValues == {40, 70, 85, 95, 100, 120, 150}

\* constructor(initialValueUsd, config)
SmConstructed(initial, given) ==
  /\ smConfig = SafetyConfigOf(given)
  /\ initialValueUsd = initial
  /\ peakValueUsd = initial
  /\ currentValueUsd = initial
  /\ stopLossTriggered = FALSE
  /\ emergencyShutdownTriggered = FALSE

\* A SafetyManager for every start value and configuration.
SmInit == \E initial \in StartValues : \E given \in GivenSafetyConfigs : SmConstructed(initial, given)

\* The SafetyManager while only another component is exercised.
SmIdle == SmConstructed(100, [maxDrawdownPercentage |-> 20])

\* drawdownPercent > maxDrawdownPercentage, with
\* drawdownPercent = (peak - current) / peak * 100
DrawdownExceeded(peak, current, c) ==
  (peak - current) * 100 > c.maxDrawdownPercentage * peak

\* lossPercent > stopLossPercentage, with
\* lossPercent = (initial - current) / initial * 100
LossExceeded(initial, current, c) ==
  (initial - current) * 100 > c.stopLossPercentage * initial

\* private checkSafetyConditions(): which procedure is triggered, the first
\* condition that holds wins.
checkSafetyConditions(initial, peak, current, c) ==
  IF current < c.minimumValueUsd THEN "stopLoss"
  ELSE IF DrawdownExceeded(peak, current, c) THEN "emergencyShutdown"
  ELSE IF LossExceeded(initial, current, c) THEN "stopLoss"
  ELSE "none"

\* updateValue(newValueUsd)
SmUpdateValue ==
  \E newValueUsd \in PortfolioValues :
    LET peak == IF newValueUsd > peakValueUsd THEN newValueUsd ELSE peakValueUsd
        triggered == checkSafetyConditions(initialValueUsd, peak, newValueUsd, smConfig)
    IN /\ currentValueUsd' = newValueUsd
       /\ peakValueUsd' = peak
       /\ stopLossTriggered' = (stopLossTriggered \/ triggered = "stopLoss")
       /\ emergencyShutdownTriggered' =
            (emergencyShutdownTriggered \/ triggered = "emergencyShutdown")
       /\ UNCHANGED <<smConfig, initialValueUsd>>
       /\ UNCHANGED <<rlVars, txVars, cfVars, rbVars, lpVars, fcVars>>

\* resetStopLoss()
SmResetStopLoss ==
  /\ stopLossTriggered
  /\ stopLossTriggered' = FALSE
  /\ UNCHANGED <<smConfig, initialValueUsd, peakValueUsd, currentValueUsd,
                 emergencyShutdownTriggered>>
  /\ UNCHANGED <<rlVars, txVars, cfVars, rbVars, lpVars, fcVars>>

SmNext ==
  \/ SmUpdateValue
  \/ SmResetStopLoss

(***************************************************************************)
(* Comet.rebalance: one rebalance session                                  *)
(***************************************************************************)
\* Largest number of positions the position query returns in the model.
MaxPositions == 4

\* const positionBatchSize = 3
positionBatchSize == 3

\* Marks a local that has not been assigned (let oldActiveBin: number;).
Undefined == 0 - 1

\* StrategyType, a numeric enum: the tests pin BidAsk to 2, Spot and Curve
\* precede it.
StrategySpot == 0

StrategyCurve == 1

StrategyBidAsk == 2

\* A strategy value that is none of the enum members.
StrategyUnknown == StrategyBidAsk + 5

\* Agent configurations: strategy string, binRange (0 = not set) and whether
\* the advisory service is enabled and constructed.
Configs ==
  {[strategy |-> "Spot", binRange |-> 0, claudeEnabled |-> TRUE],
   [strategy |-> "BidAsk", binRange |-> 5, claudeEnabled |-> TRUE],
   [strategy |-> "BID_ASK", binRange |-> 5, claudeEnabled |-> FALSE]}

\* private getStrategyType(): switch on config.strategy?.toUpperCase()
getStrategyType(strategy) ==
  CASE strategy \in {"BID_ASK", "bid_ask"} -> StrategyBidAsk
    [] strategy \in {"CURVE", "Curve", "curve"} -> StrategyCurve
    [] OTHER -> StrategySpot

\* parseStrategy of the helpers: switch on strategy.toUpperCase() with the
\* cases 'BID_ASK' and 'BIDASK', 'CURVE', and 'SPOT' as the default
parseStrategy(strategy) ==
  CASE strategy \in {"BID_ASK", "bid_ask", "BidAsk", "BIDASK", "bidask"} -> StrategyBidAsk
    [] strategy \in {"CURVE", "Curve", "curve"} -> StrategyCurve
    [] OTHER -> StrategySpot

\* const defaultBinRange = this.config.binRange || 10
defaultBinRange(c) == IF c.binRange = 0 THEN 10 ELSE c.binRange

\* Results of dlmm.getActiveBin(): bin id and parsed price.
BinInfos == {[binId |-> 1000, price |-> 100], [binId |-> 1001, price |-> 101]}

\* Amounts a removeLiquidity call reports for one position.
RemovalAmounts == {[xAmount |-> 1000, yAmount |-> 1000], [xAmount |-> 0, yAmount |-> 333]}

NoAmounts == [xAmount |-> 0, yAmount |-> 0]

\* Messages of thrown errors; the empty message exercises the
\* error.message || 'Unknown error' default.
ErrorMessages == {"", "failed"}

NoRbError == [source |-> "none", message |-> ""]

\* A null recommendation.
NullRecommendation ==
  [isNull |-> TRUE, strategy |-> 0, binRange |-> 0, minBinId |-> 0, maxBinId |-> 0,
   xWeighting |-> 0, yWeighting |-> 0]

\* The recommendation the catch block of getRebalanceRecommendation returns
\* when the request or the parsing of the answer failed.
DefaultRecommendation(activeBinId) ==
  [isNull |-> FALSE, strategy |-> StrategySpot, binRange |-> 10,
   minBinId |-> activeBinId - 10, maxBinId |-> activeBinId + 10,
   xWeighting |-> 50, yWeighting |-> 50]

\* Parsed answers getRebalanceRecommendation may resolve with, and null.
Recommendations ==
  {NullRecommendation,
   [isNull |-> FALSE, strategy |-> StrategyBidAsk, binRange |-> 15, minBinId |-> 985,
    maxBinId |-> 1015, xWeighting |-> 60, yWeighting |-> 40],
   [isNull |-> FALSE, strategy |-> StrategySpot, binRange |-> 15, minBinId |-> 985,
    maxBinId |-> 1015, xWeighting |-> 60, yWeighting |-> 40],
   [isNull |-> FALSE, strategy |-> StrategyCurve, binRange |-> 0, minBinId |-> 985,
    maxBinId |-> 1015, xWeighting |-> 30, yWeighting |-> 70],
   [isNull |-> FALSE, strategy |-> StrategyUnknown, binRange |-> 15, minBinId |-> 985,
    maxBinId |-> 1015, xWeighting |-> 0, yWeighting |-> 100]}

\* What the advisory service answered in this session: nothing yet, a
\* rejection, or a recommendation.
NoAdvice == [kind |-> "none", rec |-> NullRecommendation]

\* Date.now() during the session (the agent is constructed with
\* lastRebalanceTime = 0).
SessionTime == MaxTime + 1

RbInit ==
  /\ rbPc = "idle"
  /\ cfg \in Configs
  /\ userPositions = 0
  /\ oldActiveBin = Undefined
  /\ oldPrice = Undefined
  /\ strategyType = getStrategyType(cfg.strategy)
  /\ minBinId = Undefined
  /\ maxBinId = Undefined
  /\ xWeighting = 50
  /\ yWeighting = 50
  /\ i = 0
  /\ curAmounts = NoAmounts
  /\ removals = << >>
  /\ totalXAmount = 0
  /\ totalYAmount = 0
  /\ transactionHash = "undefined"
  /\ advisoryCalls = 0
  /\ addCalls = << >>
  /\ addSends = 0
  /\ addError = NoRbError
  /\ events = << >>
  /\ rbError = NoRbError
  /\ lastRebalanceTime = 0
  /\ advice = NoAdvice
  /\ sleeps = 0

\* errorMessage = error.message || 'Unknown error'
ErrorMessageOf(err) == IF err.message = "" THEN "Unknown error" ELSE err.message

\* The arguments of the recordRebalanceEvent call of the catch block.
FailureEvent(err) ==
  [oldActiveBin |-> oldActiveBin, newActiveBin |-> oldActiveBin,
   oldPrice |-> oldPrice, newPrice |-> oldPrice,
   transactionHash |-> "undefined", success |-> FALSE,
   errorMessage |-> ErrorMessageOf(err)]

\* A catch block that rethrows without recording.
CatchWithoutEvent(err) ==
  /\ rbError' = err
  /\ events' = events
  /\ rbPc' = "thrown"

\* catch (error) of rebalance: when the old bin info is known the failure
\* event is handed to the sink and awaited, then the error is rethrown.
Catch(err) ==
  /\ rbError' = err
  /\ IF oldActiveBin # Undefined /\ oldPrice # Undefined
     THEN /\ events' = Append(events, FailureEvent(err))
          /\ rbPc' = "recordingFailure"
     ELSE /\ events' = events
          /\ rbPc' = "thrown"

\* A position check that lets an empty position list through.
NoPositionsNeverReturns(n) == FALSE

\* if (userPositions.length === 0) return
NoPositions(n) == n = 0

\* await dlmm.getPositionsByUserAndLbPair: resolves with n positions (zero
\* positions end the session) or rejects.
RbFetchPositions ==
  /\ rbPc = "idle"
  /\ \/ \E n \in 0..MaxPositions :
          /\ userPositions' = n
          /\ rbPc' = IF NoPositions(n) THEN "returned" ELSE "getOldActiveBin"
          /\ UNCHANGED <<events, rbError>>
     \/ /\ \E m \in ErrorMessages : Catch([source |-> "positions", message |-> m])
        /\ UNCHANGED userPositions
  /\ UNCHANGED <<cfg, oldActiveBin, oldPrice, rbParams, rbRemoval, transactionHash,
                 advisoryCalls, rbAdd, lastRebalanceTime>>
  /\ UNCHANGED <<rlVars, txVars, cfVars, lpVars, fcVars, smVars>>

\* The removal loop is entered at the first position.
StartRemoval ==
  /\ i' = 1
  /\ rbPc' = "getPositionLiquidity"

\* An agent that never asks the advisory service.
AdvisoryNeverAsked(c) == FALSE

\* if (this.claudeService && this.config.claude?.enabled)
AdvisoryEnabled(c) == c.claudeEnabled

\* await dlmm.getActiveBin() before the rebalance. With the advisory service
\* enabled the recommendation is requested next; otherwise the default range
\* is set and the removal loop starts.
RbGetOldActiveBin ==
  /\ rbPc = "getOldActiveBin"
  /\ \/ \E info \in BinInfos :
          /\ oldActiveBin' = info.binId
          /\ oldPrice' = info.price
          /\ IF AdvisoryEnabled(cfg)
             THEN /\ advisoryCalls' = advisoryCalls + 1
                  /\ rbPc' = "advisory"
                  /\ UNCHANGED <<minBinId, maxBinId, i>>
             ELSE /\ minBinId' = info.binId - defaultBinRange(cfg)
                  /\ maxBinId' = info.binId + defaultBinRange(cfg)
                  /\ StartRemoval
                  /\ UNCHANGED advisoryCalls
          /\ UNCHANGED <<events, rbError>>
     \/ /\ \E m \in ErrorMessages : Catch([source |-> "oldActiveBin", message |-> m])
        /\ UNCHANGED <<oldActiveBin, oldPrice, minBinId, maxBinId, i, advisoryCalls>>
  /\ UNCHANGED <<cfg, userPositions, strategyType, xWeighting, yWeighting, curAmounts,
                 removals, totalXAmount, totalYAmount, transactionHash, rbAdd,
                 lastRebalanceTime, advice, sleeps>>
  /\ UNCHANGED <<rlVars, txVars, cfVars, lpVars, fcVars, smVars>>

\* if (recommendation && recommendation.strategy): null and the numeric
\* enum value 0 are falsy
HasStrategy(rec) == ~rec.isNull /\ rec.strategy # 0

\* switch (recommendation.strategy): unrecognized values keep the strategy
RecommendedStrategy(rec, current) ==
  IF rec.strategy \in {StrategySpot, StrategyBidAsk, StrategyCurve}
  THEN rec.strategy ELSE current

\* await claudeService.getRebalanceRecommendation resolves or rejects; the
\* strategy, bin range and weights are taken from the recommendation or from
\* the defaults, then the removal loop starts.
RbAdvisory ==
  /\ rbPc = "advisory"
  /\ \/ \E rec \in Recommendations \cup {DefaultRecommendation(oldActiveBin)} :
          /\ advice' = [kind |-> "resolved", rec |-> rec]
          /\ IF HasStrategy(rec)
             THEN /\ strategyType' = RecommendedStrategy(rec, strategyType)
                  /\ IF rec.binRange > 0
                     THEN minBinId' = rec.minBinId /\ maxBinId' = rec.maxBinId
                     ELSE /\ minBinId' = oldActiveBin - defaultBinRange(cfg)
                          /\ maxBinId' = oldActiveBin + defaultBinRange(cfg)
                  /\ IF rec.xWeighting # 0 /\ rec.yWeighting # 0
                     THEN xWeighting' = rec.xWeighting /\ yWeighting' = rec.yWeighting
                     ELSE UNCHANGED <<xWeighting, yWeighting>>
             ELSE /\ minBinId' = oldActiveBin - defaultBinRange(cfg)
                  /\ maxBinId' = oldActiveBin + defaultBinRange(cfg)
                  /\ UNCHANGED <<strategyType, xWeighting, yWeighting>>
     \/ /\ advice' = [kind |-> "threw", rec |-> NullRecommendation]
        /\ minBinId' = oldActiveBin - defaultBinRange(cfg)
        /\ maxBinId' = oldActiveBin + defaultBinRange(cfg)
        /\ UNCHANGED <<strategyType, xWeighting, yWeighting>>
  /\ StartRemoval
  /\ UNCHANGED <<cfg, userPositions, oldActiveBin, oldPrice, curAmounts, removals,
                 totalXAmount, totalYAmount, transactionHash, advisoryCalls, rbAdd,
                 events, rbError, lastRebalanceTime, sleeps>>
  /\ UNCHANGED <<rlVars, txVars, cfVars, lpVars, fcVars, smVars>>

\* A loop that sleeps only after the last batch.
NextPositionNoDelay ==
  IF i = userPositions
  THEN rbPc' = "batchSleep" /\ i' = i
  ELSE rbPc' = "getPositionLiquidity" /\ i' = i + 1

\* After a position was handled: the next position of the batch, or the
\* sleep that ends the batch.
NextPosition ==
  IF i % positionBatchSize = 0 \/ i = userPositions
  THEN rbPc' = "batchSleep" /\ i' = i
  ELSE rbPc' = "getPositionLiquidity" /\ i' = i + 1

\* A removal failure that ends the removal loop: the remaining positions
\* are skipped.
RemovalFailureAborts ==
  /\ removals' = Append(removals, [status |-> "failed", xAmount |-> 0, yAmount |-> 0])
  /\ curAmounts' = NoAmounts
  /\ rbPc' = "batchSleep"
  /\ i' = userPositions
  /\ UNCHANGED <<totalXAmount, totalYAmount, transactionHash, sleeps>>

\* catch (removeError): logged, the loop continues with the next position.
RemovalFailed ==
  /\ removals' = Append(removals, [status |-> "failed", xAmount |-> 0, yAmount |-> 0])
  /\ curAmounts' = NoAmounts
  /\ NextPosition
  /\ UNCHANGED <<totalXAmount, totalYAmount, transactionHash, sleeps>>

\* await dlmm.getPositionLiquidity(position.publicKey)
RbGetPositionLiquidity ==
  /\ rbPc = "getPositionLiquidity"
  /\ \/ /\ rbPc' = "removeLiquidity"
        /\ UNCHANGED rbRemoval
        /\ UNCHANGED transactionHash
     \/ RemovalFailed
  /\ UNCHANGED <<cfg, userPositions, oldActiveBin, oldPrice, rbParams, advisoryCalls,
                 rbAdd, events, rbError, lastRebalanceTime>>
  /\ UNCHANGED <<rlVars, txVars, cfVars, lpVars, fcVars, smVars>>

\* await dlmm.removeLiquidity(...): builds the removal and reports amounts
RbRemoveLiquidity ==
  /\ rbPc = "removeLiquidity"
  /\ \/ \E a \in RemovalAmounts :
          /\ curAmounts' = a
          /\ rbPc' = "sendRemoval"
          /\ UNCHANGED <<i, removals, totalXAmount, totalYAmount, transactionHash, sleeps>>
     \/ RemovalFailed
  /\ UNCHANGED <<cfg, userPositions, oldActiveBin, oldPrice, rbParams, advisoryCalls,
                 rbAdd, events, rbError, lastRebalanceTime>>
  /\ UNCHANGED <<rlVars, txVars, cfVars, lpVars, fcVars, smVars>>

\* await sendTransactionWithPriorityFee(...) for the removal
RbSendRemoval ==
  /\ rbPc = "sendRemoval"
  /\ \/ /\ rbPc' = "confirmRemoval"
        /\ UNCHANGED rbRemoval
        /\ UNCHANGED transactionHash
     \/ RemovalFailed
  /\ UNCHANGED <<cfg, userPositions, oldActiveBin, oldPrice, rbParams, advisoryCalls,
                 rbAdd, events, rbError, lastRebalanceTime>>
  /\ UNCHANGED <<rlVars, txVars, cfVars, lpVars, fcVars, smVars>>

\* await confirmTransactionWithTimeout(...) for the removal; on success the
\* amounts are added to the totals and the first signature is kept.
RbConfirmRemoval ==
  /\ rbPc = "confirmRemoval"
  /\ \/ /\ totalXAmount' = totalXAmount + curAmounts.xAmount
        /\ totalYAmount' = totalYAmount + curAmounts.yAmount
        /\ transactionHash' = IF transactionHash = "undefined" THEN "removal" ELSE transactionHash
        /\ removals' = Append(removals, [status |-> "confirmed",
                                         xAmount |-> curAmounts.xAmount,
                                         yAmount |-> curAmounts.yAmount])
        /\ curAmounts' = NoAmounts
        /\ NextPosition
        /\ UNCHANGED sleeps
     \/ RemovalFailed
  /\ UNCHANGED <<cfg, userPositions, oldActiveBin, oldPrice, rbParams, advisoryCalls,
                 rbAdd, events, rbError, lastRebalanceTime>>
  /\ UNCHANGED <<rlVars, txVars, cfVars, lpVars, fcVars, smVars>>

\* A guard that re-adds liquidity whatever was recovered.
ShouldAddAlways(x, y) == TRUE

\* if (totalXAmount.gtn(0) || totalYAmount.gtn(0))
ShouldAdd(x, y) == x > 0 \/ y > 0

\* A weighted split that rounds up.
WeightedAmountRoundedUp(totalValue, weighting) == CeilDiv(totalValue * weighting, 100)

\* totalValue.muln(weighting).divn(100)
WeightedAmount(totalValue, weighting) == (totalValue * weighting) \div 100

\* The arguments of dlmm.initializePositionAndAddLiquidityByStrategy
AddLiquidityArgs ==
  [totalXAmount |-> WeightedAmount(totalXAmount + totalYAmount, xWeighting),
   totalYAmount |-> WeightedAmount(totalXAmount + totalYAmount, yWeighting),
   minBinId |-> minBinId, maxBinId |-> maxBinId, strategyType |-> strategyType]

\* await sleep(2000) after a batch: the next batch starts, or, after the last
\* one, add-liquidity is built when something was recovered and skipped
\* otherwise (lastRebalanceTime is set and the new active bin is read).
RbBatchSleepDone ==
  /\ rbPc = "batchSleep"
  /\ sleeps' = sleeps + 1
  /\ IF i < userPositions
     THEN /\ i' = i + 1
          /\ rbPc' = "getPositionLiquidity"
          /\ UNCHANGED <<addCalls, lastRebalanceTime>>
     ELSE /\ i' = i
          /\ IF ShouldAdd(totalXAmount, totalYAmount)
             THEN /\ addCalls' = Append(addCalls, AddLiquidityArgs)
                  /\ rbPc' = "addBuild"
                  /\ UNCHANGED lastRebalanceTime
             ELSE /\ lastRebalanceTime' = SessionTime
                  /\ rbPc' = "getNewActiveBin"
                  /\ UNCHANGED addCalls
  /\ UNCHANGED <<cfg, userPositions, oldActiveBin, oldPrice, rbParams, curAmounts,
                 removals, totalXAmount, totalYAmount, transactionHash, advisoryCalls,
                 addSends, addError, events, rbError>>
  /\ UNCHANGED <<rlVars, txVars, cfVars, lpVars, fcVars, smVars>>

\* catch (addError) { throw addError }: the error reaches the outer catch
AddFailed(err) ==
  /\ addError' = err
  /\ Catch(err)

\* await dlmm.initializePositionAndAddLiquidityByStrategy(...) resolves and
\* the transaction is handed to sendTransactionWithPriorityFee, or rejects.
RbAddBuilt ==
  /\ rbPc = "addBuild"
  /\ \/ /\ addSends' = addSends + 1
        /\ rbPc' = "addSend"
        /\ UNCHANGED <<addError, events, rbError>>
     \/ /\ \E m \in ErrorMessages : AddFailed([source |-> "addBuild", message |-> m])
        /\ UNCHANGED addSends
  /\ UNCHANGED <<cfg, userPositions, oldActiveBin, oldPrice, rbParams, rbRemoval,
                 transactionHash, advisoryCalls, addCalls, lastRebalanceTime>>
  /\ UNCHANGED <<rlVars, txVars, cfVars, lpVars, fcVars, smVars>>

\* await sendTransactionWithPriorityFee(...) for the new position
RbAddSent ==
  /\ rbPc = "addSend"
  /\ \/ /\ rbPc' = "addConfirm"
        /\ UNCHANGED <<addError, events, rbError>>
     \/ \E m \in ErrorMessages : AddFailed([source |-> "addSend", message |-> m])
  /\ UNCHANGED <<cfg, userPositions, oldActiveBin, oldPrice, rbParams, rbRemoval,
                 transactionHash, advisoryCalls, addCalls, addSends, lastRebalanceTime>>
  /\ UNCHANGED <<rlVars, txVars, cfVars, lpVars, fcVars, smVars>>

\* await confirmTransactionWithTimeout(...) for the new position; on success
\* the signature is kept, lastRebalanceTime is set and the new bin is read.
RbAddConfirmed ==
  /\ rbPc = "addConfirm"
  /\ \/ /\ transactionHash' = "add"
        /\ lastRebalanceTime' = SessionTime
        /\ rbPc' = "getNewActiveBin"
        /\ UNCHANGED <<addError, events, rbError>>
     \/ /\ \E m \in ErrorMessages : AddFailed([source |-> "addConfirm", message |-> m])
        /\ UNCHANGED <<transactionHash, lastRebalanceTime>>
  /\ UNCHANGED <<cfg, userPositions, oldActiveBin, oldPrice, rbParams, rbRemoval,
                 advisoryCalls, addCalls, addSends>>
  /\ UNCHANGED <<rlVars, txVars, cfVars, lpVars, fcVars, smVars>>

\* The arguments of the recordRebalanceEvent call of the try block.
SuccessEvent(info) ==
  [oldActiveBin |-> oldActiveBin, newActiveBin |-> info.binId,
   oldPrice |-> oldPrice, newPrice |-> info.price,
   transactionHash |-> transactionHash, success |-> TRUE, errorMessage |-> ""]

\* await dlmm.getActiveBin() after the rebalance: success = true and the
\* event is handed to the sink, or the read rejects.
RbGetNewActiveBin ==
  /\ rbPc = "getNewActiveBin"
  /\ \/ \E info \in BinInfos :
          /\ events' = Append(events, SuccessEvent(info))
          /\ rbPc' = "recordingEvent"
          /\ UNCHANGED rbError
     \/ \E m \in ErrorMessages : Catch([source |-> "newActiveBin", message |-> m])
  /\ UNCHANGED <<cfg, userPositions, oldActiveBin, oldPrice, rbParams, rbRemoval,
                 transactionHash, advisoryCalls, rbAdd, lastRebalanceTime>>
  /\ UNCHANGED <<rlVars, txVars, cfVars, lpVars, fcVars, smVars>>

\* await recordRebalanceEvent(...) of the try block resolves (the two price
\* reads follow; with their fallback of 1 they never reject, then
\* recordPoolMetrics is called) or rejects into the catch block.
RbEventRecorded ==
  /\ rbPc = "recordingEvent"
  /\ \/ /\ rbPc' = "recordingMetrics"
        /\ UNCHANGED <<events, rbError>>
     \/ \E m \in ErrorMessages : Catch([source |-> "recordRebalanceEvent", message |-> m])
  /\ UNCHANGED <<cfg, userPositions, oldActiveBin, oldPrice, rbParams, rbRemoval,
                 transactionHash, advisoryCalls, rbAdd, lastRebalanceTime>>
  /\ UNCHANGED <<rlVars, txVars, cfVars, lpVars, fcVars, smVars>>

\* await recordPoolMetrics(...) resolves and rebalance returns, or rejects
\* into the catch block.
RbMetricsRecorded ==
  /\ rbPc = "recordingMetrics"
  /\ \/ /\ rbPc' = "returned"
        /\ UNCHANGED <<events, rbError>>
     \/ \E m \in ErrorMessages : Catch([source |-> "recordPoolMetrics", message |-> m])
  /\ UNCHANGED <<cfg, userPositions, oldActiveBin, oldPrice, rbParams, rbRemoval,
                 transactionHash, advisoryCalls, rbAdd, lastRebalanceTime>>
  /\ UNCHANGED <<rlVars, txVars, cfVars, lpVars, fcVars, smVars>>

\* await recordRebalanceEvent(...) of the catch block settles (a rejection is
\* caught and logged); the original error is rethrown.
RbFailureRecorded ==
  /\ rbPc = "recordingFailure"
  /\ rbPc' = "thrown"
  /\ UNCHANGED <<cfg, userPositions, oldActiveBin, oldPrice, rbParams, rbRemoval,
                 transactionHash, advisoryCalls, rbAdd, events, rbError, lastRebalanceTime>>
  /\ UNCHANGED <<rlVars, txVars, cfVars, lpVars, fcVars, smVars>>

RbNext ==
  \/ RbFetchPositions
  \/ RbGetOldActiveBin
  \/ RbAdvisory
  \/ RbGetPositionLiquidity
  \/ RbRemoveLiquidity
  \/ RbSendRemoval
  \/ RbConfirmRemoval
  \/ RbBatchSleepDone
  \/ RbAddBuilt
  \/ RbAddSent
  \/ RbAddConfirmed
  \/ RbGetNewActiveBin
  \/ RbEventRecorded
  \/ RbMetricsRecorded
  \/ RbFailureRecorded

vars == <<rlVars, txVars, cfVars, rbVars, lpVars, fcVars, smVars>>

RLNext ==
  \/ \E c \in Callers : Acquire(c)
  \/ \E c \in Callers : AcquireRetry(c)
  \/ \E c \in Callers : AcquireReturn(c)
  \/ Tick

\* The configuration of the agent while only another component is exercised.
RbIdle == RbInit /\ cfg = CHOOSE c \in Configs : c.claudeEnabled /\ c.binRange = 0

\* Initial state while the RateLimiter or the submitter is exercised.
Init == RLInit /\ TxInit /\ CfInit /\ RbIdle /\ LpInit /\ FcInit /\ SmIdle

\* Initial state of a rebalance session, for every agent configuration.
InitRb == RLInit /\ TxInit /\ CfInit /\ RbInit /\ LpInit /\ FcInit /\ SmIdle

\* Initial state of a SafetyManager, for every configuration and start value.
InitSafety == RLInit /\ TxInit /\ CfInit /\ RbIdle /\ LpInit /\ FcInit /\ SmInit

SpecRL == Init /\ [][RLNext]_vars

\* The RateLimiter over unbounded time.
RLLiveNext ==
  \/ \E c \in Callers : AcquireLive(c)
  \/ \E c \in Callers : AcquireRetryLive(c)
  \/ \E c \in Callers : AcquireReturn(c)
  \/ TickLive

\* Fair scheduling and advancing time: the clock keeps moving, every timer
\* that is due fires, every resolved acquire returns to its caller, and a
\* suspended caller that again and again finds a token when its timer fires
\* gets one. Whether and when callers call acquire is left to them.
FairRL ==
  /\ WF_vars(TickLive)
  /\ \A c \in Callers : WF_vars(AcquireRetryLive(c))
  /\ \A c \in Callers : SF_vars(AcquireRetryLive(c) /\ rlPc'[c] = "granted")
  /\ \A c \in Callers : WF_vars(AcquireReturn(c))

SpecLive == Init /\ [][RLLiveNext]_vars /\ FairRL

\* The RateLimiter with its grants logged.
RLLoggedNext ==
  \/ \E c \in Callers : AcquireLogged(c)
  \/ \E c \in Callers : AcquireRetryLogged(c)
  \/ \E c \in Callers : AcquireReturn(c)
  \/ TickLogged

SpecAdmit == Init /\ [][RLLoggedNext]_vars

SpecTx == Init /\ [][TxNext]_vars

SpecCf == Init /\ [][CfNext]_vars

SpecLoop == Init /\ [][LoopNext]_vars

SpecFees == Init /\ [][FcNext]_vars

SpecSafety == InitSafety /\ [][SmNext]_vars

\* Every await of the main loop eventually settles: the sleeps end, and the
\* refresh, the decision, rebalance() and collectFees() resolve or reject.
\* Whether start() and stop() are called is left to the caller.
FairLoop ==
  /\ \A l \in Loops : WF_vars(LpHead(l))
  /\ \A l \in Loops : WF_vars(LpRefresh(l))
  /\ \A l \in Loops : WF_vars(LpDecide(l))
  /\ \A l \in Loops : WF_vars(LpRebalanceEnds(l))
  /\ \A l \in Loops : WF_vars(LpFeesEnd(l))
  /\ \A l \in Loops : WF_vars(LpSleepDone(l))

SpecLoopFair == Init /\ [][LoopNext]_vars /\ FairLoop

SpecRb == InitRb /\ [][RbNext]_vars

\* C1: for every bucket, 0 <= tokens <= capacity (the configured requests
\* value) after every acquire call, under any interleaving of callers,
\* including calls that suspend and retry.
BucketBound ==
  \A k \in DOMAIN config : buckets[k].tokens >= 0 /\ buckets[k].tokens <= config[k].requests

\* C1 witness: a caller is suspended on an exhausted bucket while another
\* bucket has been lazily refilled up to capacity and drawn from again.
BucketBoundWitness ==
  /\ \E c \in Callers : rlPc[c] = "waiting" /\ buckets[LimitKey(rlKey[c])].tokens = 0
  /\ \E k \in DOMAIN config :
       /\ buckets[k].tokens = config[k].requests - 1
       /\ buckets[k].lastRefill > 0
       /\ config[k].requests > 1

\* C3 (as claimed): whenever attempt k failed with a timeout-class error,
\* attempt k+1 is sent with at least twice the fee of attempt k.
FeeEscalation ==
  \A k \in 1..(Len(attempts) - 1) :
    TimeoutClass(attempts[k].error) => attempts[k + 1].fee >= 2 * attempts[k].fee

\* C9 (as claimed): an attempt that failed with a non-timeout-class error is
\* the last attempt and its error has been propagated to the caller.
NonRetryablePropagates ==
  \A k \in 1..Len(attempts) :
    attempts[k].error = "other" => (k = Len(attempts) /\ txPc = "failed")

\* C10: a submission makes at most maxRetries + 1 send attempts; when all of
\* them failed the terminal error wraps the error of the last attempt as its
\* cause, and no attempt is made after the terminal error was raised.
RetryExhaustion ==
  /\ [](/\ Len(attempts) <= txMaxRetries + 1
        /\ (txPc = "failed" /\ Len(attempts) > 0) =>
             /\ Len(attempts) = txMaxRetries + 1
             /\ \A k \in 1..Len(attempts) : attempts[k].error # "none"
             /\ txThrown.wrapped
             /\ txThrown.cause = [kind |-> attempts[Len(attempts)].error,
                                   attempt |-> Len(attempts)])
  /\ [][txPc = "failed" => (txPc' = "failed" /\ attempts' = attempts /\ txThrown' = txThrown)]_vars

\* C10 witness: a submission with retries configured ended with the terminal
\* error after its last attempt failed.
RetryExhaustionWitness ==
  /\ txPc = "failed"
  /\ txMaxRetries >= 2
  /\ Len(attempts) = txMaxRetries + 1
  /\ txThrown.wrapped

\* The session has ended: rebalance returned or threw.
RbEnded == rbPc \in {"returned", "thrown"}

\* Every position of the session has been through the removal loop.
RemovalsDone == userPositions > 0 /\ Len(removals) = userPositions

AllRemovalsFailed == RemovalsDone /\ \A k \in 1..Len(removals) : removals[k].status = "failed"

RECURSIVE SumConfirmedX(_)
SumConfirmedX(log) ==
  IF log = << >> THEN 0
  ELSE (IF Head(log).status = "confirmed" THEN Head(log).xAmount ELSE 0) + SumConfirmedX(Tail(log))

RECURSIVE SumConfirmedY(_)
SumConfirmedY(log) ==
  IF log = << >> THEN 0
  ELSE (IF Head(log).status = "confirmed" THEN Head(log).yAmount ELSE 0) + SumConfirmedY(Tail(log))

\* C2 (as claimed): a session that found at least one position records
\* exactly one RebalanceEvent: never two, and one once the session has ended.
ExactlyOneEvent ==
  /\ Len(events) <= 1
  /\ (RbEnded /\ userPositions > 0) => Len(events) = 1

ZeroRecoveredEvent ==
  AllRemovalsFailed =>
    \A k \in 1..Len(events) :
      /\ ~events[k].success
      /\ events[k].newActiveBin = events[k].oldActiveBin
      /\ events[k].newPrice = events[k].oldPrice

\* C7: when the position query returns zero positions, rebalance returns
\* normally without any removal, add-liquidity or advisory call and without
\* recording an event.
NoPositionsNoOp ==
  (rbPc # "idle" /\ userPositions = 0 /\ rbError = NoRbError) =>
    /\ rbPc = "returned"
    /\ removals = << >>
    /\ addCalls = << >>
    /\ addSends = 0
    /\ advisoryCalls = 0
    /\ events = << >>
    /\ lastRebalanceTime = 0

\* C7 witness: a session that found no positions has returned.
NoPositionsNoOpWitness == rbPc = "returned" /\ userPositions = 0

\* C8: when add-liquidity fails, a failure event (success = false, new bin
\* and price equal to the old ones, non-empty error message) is recorded
\* before the error is propagated, and the session ends by throwing that
\* same error.
AddFailureRecordedThenThrown ==
  addError # NoRbError =>
    /\ rbPc \in {"recordingFailure", "thrown"}
    /\ rbError = addError
    /\ Len(events) = 1
    /\ ~events[1].success
    /\ events[1].newActiveBin = oldActiveBin /\ events[1].oldActiveBin = oldActiveBin
    /\ events[1].newPrice = oldPrice /\ events[1].oldPrice = oldPrice
    /\ events[1].errorMessage # ""
    /\ events[1].errorMessage = ErrorMessageOf(addError)

\* C8 witness: rebalance threw the error of a failed add-liquidity
\* confirmation whose message was empty.
AddFailureRecordedThenThrownWitness ==
  /\ rbPc = "thrown"
  /\ addError.source = "addConfirm"
  /\ addError.message = ""
  /\ rbError = addError

\* C11 (as claimed): across the attempts of one submission the fee carried
\* by the sent transaction never decreases, whatever the starting fee.
FeeMonotone ==
  \A k \in 1..(Len(attempts) - 1) : attempts[k + 1].fee >= attempts[k].fee

\* C12 (as claimed): a confirmation wait has returned or thrown once more
\* than timeoutMs has elapsed, and it always ends by returning or throwing.
ConfirmEndsWithinTimeout ==
  /\ cfElapsed > cfTimeoutMs => CfEnded
  /\ cfPc # "exited"

\* C13 (as claimed): the caller sees "confirmed" exactly when the call
\* returns, an execution error is thrown only when the timeout did not elapse
\* first, and a wait whose timeout elapsed first ends with the timeout error.
ConfirmOutcomes ==
  /\ cfOutcome = "confirmed" <=> cfPc = "returned"
  /\ cfOutcome = "executionError" => (cfPc = "threw" /\ cfTimer # "fired")
  /\ (cfTimer = "fired" /\ CfEnded) => cfOutcome = "timeout"

\* C14 (as claimed): an error of the event or metrics sink never becomes the
\* outcome of the session: it is neither pending in the catch block nor thrown
\* to the caller.
SinkFailureTolerated ==
  rbPc \in {"recordingFailure", "thrown"} =>
    rbError.source \notin {"recordRebalanceEvent", "recordPoolMetrics"}

\* A recommendation naming Spot, Curve or BidAsk with a positive bin range
\* and both weights.
Usable(rec) ==
  /\ ~rec.isNull
  /\ rec.strategy \in {StrategySpot, StrategyCurve, StrategyBidAsk}
  /\ rec.binRange > 0
  /\ rec.xWeighting > 0
  /\ rec.yWeighting > 0

\* C15 (as claimed): when the advisory service answered with a usable
\* recommendation, the add-liquidity call carries its strategy and bin bounds
\* and the split uses its weights.
RecommendationApplied ==
  \A k \in 1..Len(addCalls) :
    (advice.kind = "resolved" /\ Usable(advice.rec)) =>
      /\ addCalls[k].strategyType = advice.rec.strategy
      /\ addCalls[k].minBinId = advice.rec.minBinId
      /\ addCalls[k].maxBinId = advice.rec.maxBinId
      /\ xWeighting = advice.rec.xWeighting
      /\ yWeighting = advice.rec.yWeighting

\* C16 (as claimed): when the advisory service threw or answered with
\* nothing, the add-liquidity call uses the default range around the active
\* bin read at the start and the strategy the agent is configured with.
AdvisoryFallback ==
  \A k \in 1..Len(addCalls) :
    (advice.kind = "threw" \/ (advice.kind = "resolved" /\ advice.rec.isNull)) =>
      /\ addCalls[k].minBinId = oldActiveBin - defaultBinRange(cfg)
      /\ addCalls[k].maxBinId = oldActiveBin + defaultBinRange(cfg)
      /\ addCalls[k].strategyType = parseStrategy(cfg.strategy)

\* C17: at most one add-liquidity call is built and submitted, and its two
\* amounts are the floors of total * weight / 100, where total is the sum of
\* both amounts recovered by the confirmed removals.
WeightedSplit ==
  /\ Len(addCalls) <= 1
  /\ addSends <= Len(addCalls)
  /\ \A k \in 1..Len(addCalls) :
       LET total == SumConfirmedX(removals) + SumConfirmedY(removals)
           a == addCalls[k].totalXAmount
           b == addCalls[k].totalYAmount
       IN /\ 100 * a <= total * xWeighting
          /\ total * xWeighting < 100 * (a + 1)
          /\ 100 * b <= total * yWeighting
          /\ total * yWeighting < 100 * (b + 1)

\* C17 witness: the add-liquidity transaction was submitted for a total
\* whose weighted share is not a whole number.
WeightedSplitWitness ==
  /\ addSends = 1
  /\ Len(addCalls) = 1
  /\ ((totalXAmount + totalYAmount) * xWeighting) % 100 # 0
  /\ addCalls[1].totalXAmount > 0

\* The session is working on position i: reading its liquidity, building
\* its removal, or waiting for the send or the confirmation of its removal.
InRemoval == rbPc \in {"getPositionLiquidity", "removeLiquidity", "sendRemoval", "confirmRemoval"}

\* C18: while the removal of position i is read, built, submitted or
\* confirmed, every earlier position has completed (confirmed or failed) and
\* every earlier batch has been followed by its delay; so at most one
\* removal submission is in flight.
RemovalsSequential ==
  /\ InRemoval =>
       /\ i \in 1..userPositions
       /\ Len(removals) = i - 1
       /\ sleeps = (i - 1) \div positionBatchSize
  /\ rbPc = "batchSleep" => Len(removals) = i

\* C18 witness: the removal of the first position of the second batch is
\* submitted, after one delay.
RemovalsSequentialWitness ==
  /\ rbPc = "sendRemoval"
  /\ i = positionBatchSize + 1
  /\ sleeps = 1

KeysIndependent ==
  \A c \in Callers : rlPc[c] = "waiting" => rlKey[c] \in drawn

\* Two keys draw from the same quota: the same key, or two keys that are both
\* unknown to the configuration.
SameQuota(k1, k2) == k1 = k2 \/ (k1 \notin DOMAIN config /\ k2 \notin DOMAIN config)

\* C20 (amended): a caller is made to wait on a key only when a token was
\* consumed under a key of the same quota before: a configured key has a
\* quota of its own, all unknown keys share the default quota.
QuotasIndependent ==
  \A c \in Callers :
    rlPc[c] = "waiting" => \E k \in drawn : SameQuota(k, rlKey[c])

\* C20 witness: a caller waits on an unknown key whose quota is used up
\* while another caller has just been granted a token under the configured
\* key.
QuotasIndependentWitness ==
  \E c, d \in Callers :
    /\ rlPc[c] = "waiting"
    /\ rlKey[c] \notin DOMAIN config
    /\ rlPc[d] = "granted"
    /\ rlKey[d] = "svc"
    /\ buckets["default"].tokens = 0
    /\ "svc" \in drawn

ImportanceRank(x) == CASE x = "low" -> 1 [] x = "medium" -> 2 [] x = "high" -> 3 [] x = "critical" -> 4

CongestionRank(x) == CASE x = "low" -> 1 [] x = "moderate" -> 2 [] x = "high" -> 3 [] x = "veryHigh" -> 4

LevelRank(x) ==
  CASE x = "min" -> 1 [] x = "low" -> 2 [] x = "medium" -> 3 [] x = "high" -> 4
    [] x = "veryHigh" -> 5 [] x = "unsafeMax" -> 6

FeeFloor == \A k \in 1..Len(attempts) : attempts[k].fee >= SafeMinimumFee

\* C27 (as claimed): every remote call of a submission was made under a
\* token of the Rate Limiter.
AllCallsRateLimited == \A r \in txCalls : r.limitKey # "none"

\* C30 (as claimed): while an attempt is being sent no fee-escalation step
\* is pending.
EscalationBeforeSend == txPc = "inflight" => txPending = 0

\* C29 (as claimed): when add-liquidity failed after funds were recovered,
\* the error thrown to the caller carries the recovered amounts and the
\* attempted bin range.
AddFailureCarriesState ==
  (rbPc = "thrown" /\ addError # NoRbError) =>
    /\ {"recovered", "range"} \subseteq DOMAIN rbError
    /\ rbError.recovered = [xAmount |-> totalXAmount, yAmount |-> totalYAmount]
    /\ rbError.range = [minBinId |-> minBinId, maxBinId |-> maxBinId]

\* C28: no cycle of the main loop begins while the agent is stopped: a
\* loop that evaluates its condition after stop() only returns; stop() itself
\* changes the position of no loop, and a rebalance or fee collection that
\* is in progress is left only by completing, towards the next step of its
\* cycle.
StopStartsNoCycle ==
  /\ [](\A l \in Loops : loopPc[l] \in InCycle => ~afterStop[l])
  /\ [][\A l \in Loops :
          (stopped /\ stopped' /\ loopPc[l] = "head") => loopPc'[l] \in {"head", "returned"}]_vars
  /\ [][(~stopped /\ stopped') => loopPc' = loopPc]_vars
  /\ [][\A l \in Loops :
          loopPc[l] \in {"rebalance", "fees"} =>
            loopPc'[l] \in {loopPc[l], "fees", "sleep"}]_vars

\* C28 witness: a single start() entered the loop, stop() was called, and
\* the loop evaluated its condition afterwards and returned.
StopStartsNoCycleWitness ==
  \E l \in Loops :
    /\ stopped
    /\ loopPc[l] = "returned"
    /\ \A k \in Loops : k # l => loopPc[k] = "none"

\* C21: with every timer firing in the millisecond it is due, a suspended
\* caller that is the only waiter of its bucket is granted a token no later
\* than one refill interval after a caller that arrived later was seen to
\* take a token of that bucket.
OldestWaiterServed ==
  \A c \in Callers :
    (rlPc[c] = "waiting" /\ rlSeen[c] # NotSeen) =>
      now <= rlSeen[c] + timeToNextToken(config[LimitKey(rlKey[c])])

\* C22: under fair scheduling and advancing time every acquire call that
\* was suspended is eventually granted its token.
AcquireReturns ==
  \A c \in Callers : (rlPc[c] = "waiting") ~> (rlPc[c] = "granted")

\* C31: every add-liquidity call asks to deposit, of each token, at most
\* the amount of that token the removals of the session returned.
DepositWithinRecovered ==
  \A k \in 1..Len(addCalls) :
    /\ addCalls[k].totalXAmount <= totalXAmount
    /\ addCalls[k].totalYAmount <= totalYAmount

\* C32: at any time at most one start() call is inside the main loop (at
\* the loop condition, in a cycle, or asleep between two cycles).
AtMostOneLoop ==
  Cardinality({l \in Loops : loopPc[l] \in InCycle \cup {"head", "sleep"}}) <= 1

\* C34: when shouldRebalance got as far as the advisory request (automatic
\* rebalancing on, minimum interval elapsed, advisory enabled, active bin
\* read) and the request failed, its answer is true.
AdvisoryFailureRebalances ==
  \A l \in Loops :
    (decided[l].taken /\ decided[l].inputs.advisory = "failed") => decided[l].result

LastRebalanceOnlyOnOpen ==
  lastRebalanceTime = SessionTime => (Len(addCalls) = 1 /\ transactionHash = "add")

\* C36: once confirmTransactionWithTimeout has returned or thrown, its
\* timeout timer is no longer armed and has not fired after that exit.
TimerCancelledOnExit ==
  CfEnded => cfTimer \in {"cleared", "fired"}

\* C38: the events recorded for one collectFees call are success events
\* only, at most one per position and only for positions whose fees were
\* read, or exactly one failure event; with no positions nothing is
\* submitted and nothing recorded.
FeeEventsExclusive ==
  LET successes == {k \in 1..Len(fcEvents) : fcEvents[k].success}
      failures == {k \in 1..Len(fcEvents) : ~fcEvents[k].success}
  IN /\ successes = {} \/ failures = {}
     /\ Cardinality(failures) <= 1
     /\ \A k \in successes : fcFees[fcEvents[k].position]
     /\ \A j, k \in successes : fcEvents[j].position = fcEvents[k].position => j = k
     /\ (fcPc = "returned" /\ fcPositions = 0) => (fcSubmitted = 0 /\ fcEvents = <<>>)

\* C39: whenever the current value lies more than maxDrawdownPercentage
\* below the peak value (also when it is below the minimum value),
\* emergencyShutdownTriggered is true; the flag is never cleared; and the
\* peak value is never below the current value.
DrawdownShutsDown ==
  /\ [](DrawdownExceeded(peakValueUsd, currentValueUsd, smConfig) => emergencyShutdownTriggered)
  /\ [][emergencyShutdownTriggered => emergencyShutdownTriggered']_vars
  /\ [](peakValueUsd >= currentValueUsd)

\* The grants of bucket k stamped within the window [s, s + w].
GrantsInWindow(k, s, w) ==
  Cardinality({n \in 1..Len(rlGrants[k]) : rlGrants[k][n] >= s /\ rlGrants[k][n] <= s + w})

\* C33: for each bucket and every window of length W, the acquire calls
\* granted within the window number at most capacity + W * requests / period
\* (both sides multiplied by the period).
WindowAdmission ==
  \A k \in DOMAIN config : \A w \in 0..MaxWindow : \A s \in 0..MaxTime :
    GrantsInWindow(k, s, w) * config[k].period
      <= config[k].requests * config[k].period + w * config[k].requests
====
